---- MODULE Spec2Model ----
(***************************************************************************)
(* Model of the WAV -> MP3 batch converter (PeterEbel/wav2mp3).            *)
(*                                                                         *)
(* The model follows wav2mp3_multi_threaded_version_2.py: run_conversion   *)
(* discovers the WAV files, either counts them in a dry run or submits one *)
(* convert_one call per file to a ThreadPoolExecutor and collects the      *)
(* results with as_completed.  The destination tree is the shared state:   *)
(* fs[f] is the content of the destination file of source file f.         *)
(***************************************************************************)
EXTENDS Integers, Naturals, Sequences, FiniteSets, TLC

\* ------------------------------------------------------------------ bounds
NumFiles == 2
MaxWorkers == 2
MaxRuns == 2

AllFiles == 1..NumFiles

\* Destination directory of a file: files 1,2 share a directory, 3,4 the next.
DirOf(f) == (f + 1) \div 2
Dirs == {DirOf(f) : f \in AllFiles}

\* Content of a destination path.
\*   absent  : no file            old    : an .mp3 that predates the first run
\*   partial : opened by export, encoder has not finished
\*   audio   : encoded audio, no tags written by copy_tags
\*   tagged  : encoded audio and tags saved by copy_tags
Contents == {"absent", "old", "partial", "audio", "tagged"}

VARIABLES
    wav_files,      \* the files found by rglob("*.wav")
    has_tags,       \* discovered files whose WAV carries a non-empty tag container
    fs,             \* destination file content, per source file
    dirs,           \* destination directories: "missing" | "present"
    workers,        \* --workers
    dry_run,        \* --dry-run
    run,            \* which invocation of the pipeline this is
    pc,             \* position of run_conversion
    idx,            \* position in the sorted wav_files list (dry loop / submit loop)
    work_queue,     \* the executor's FIFO work queue
    tpc,            \* position of each file's convert_one call
    result,         \* value returned by convert_one, "none" before it returns
    converted, skipped, failed,       \* live counters
    would_convert, would_skip,        \* dry-run counters
    log_errors,     \* files named by a logging.error entry in this run
    submitted,      \* number of ex.submit calls per file in this run
    started,        \* number of convert_one invocations per file in this run
    counted,        \* number of fut.result() deliveries per file in this run
    attempts,       \* number of AudioSegment.from_wav calls per file in this run
    seen,           \* content found by mp3_file.exists() at the check, "none" before
    fs0,            \* destination contents when the current run started
    outcome1,       \* convert_one results of the previous run
    src_exists,     \* whether the source directory exists
    arg_dry_run,    \* the dry_run argument convert_one is called with
    dirs0,          \* destination directories when the current run started
    tag_event,      \* what happened inside copy_tags, "none" before it ran
    copied          \* value returned by copy_tags, per file

\* State of one copy_tags(wav_file, mp3_file) call, frame by frame.
VARIABLES
    t_src,          \* the WAV's tag container as mutagen reads it
    t_disk0,        \* the MP3's tag container before copy_tags (from the encoder)
    t_disk,         \* the MP3's tag container on disk
    t_mem,          \* mp3_audio.tags, the container being rebuilt in memory
    t_todo,         \* source frames the loop has not visited yet
    t_copied,       \* the local counter "copied"
    t_ret,          \* value returned by copy_tags
    t_path,         \* "none" | "rich" | "flat": the helper copy_tags dispatched to
    t_event,        \* "none" | "no_tags" | "unreadable" | "mp3_error" |
                    \* "save_error" | "saved"
    t_pc,           \* "idle" | "start" | "prepare" | "loop" | "save" | "done"
    t_raised        \* source frames whose cloning raised (caught at line 70)

\* State of the discovery walk and of the destination-path computation.
VARIABLES
    p_tree,         \* the files under the source root
    p_posix,        \* TRUE: pathlib matches patterns case-sensitively (POSIX)
    p_found,        \* wav_files: the result of src_path.rglob("*.wav")
    p_dest,         \* <<wav_file, mp3_file>> pairs computed so far
    p_pc            \* "idle" | "start" | "resolve" | "done"

path_vars == <<p_tree, p_posix, p_found, p_dest, p_pc>>

tag_vars == <<t_src, t_disk0, t_disk, t_mem, t_todo, t_copied, t_ret, t_path,
              t_event, t_pc,
              t_raised>>

vars == <<wav_files, has_tags, fs, dirs, workers, dry_run, run, pc, idx,
          work_queue, tpc, result, converted, skipped, failed,
          would_convert, would_skip, log_errors, submitted, started, counted,
          attempts, seen, fs0, outcome1, src_exists, arg_dry_run, dirs0,
          tag_event, copied, tag_vars, path_vars>>

\* Inputs that no step of the pipeline changes.
other_vars == <<src_exists, arg_dry_run, tag_vars, path_vars>>

\* Everything the pipeline (run_conversion, convert_one) reads or writes.
pipe_vars == <<wav_files, has_tags, fs, dirs, workers, dry_run, run, pc, idx,
               work_queue, tpc, result, converted, skipped, failed,
               would_convert, would_skip, log_errors, submitted, started,
               counted, attempts, seen, fs0, outcome1, src_exists,
               arg_dry_run, dirs0, tag_event, copied>>

\* ------------------------------------------------------------------ helpers
RECURSIVE SortedSeq(_)
\* sorted(src_path.rglob("*.wav")) as a sequence
SortedSeq(S) ==
    IF S = {} THEN <<>>
    ELSE LET m == CHOOSE x \in S : \A y \in S : x <= y
         IN <<m>> \o SortedSeq(S \ {m})

\* mp3_file.exists()
Exists(content) == content # "absent"

Running == {"mkdir", "check", "decode", "export", "encoding", "tags"}
Finished == {"returned", "raised"}

\* convert_one invocations that have started and not yet returned
InFlight == {f \in AllFiles : tpc[f] \in Running}

\* ThreadPoolExecutor(max_workers=workers): a queued item is taken only while
\* fewer than max_workers calls are running.
CanStartUnbounded == TRUE
CanStart == Cardinality(InFlight) < workers

Zero == [f \in AllFiles |-> 0]
NoResult == [f \in AllFiles |-> "none"]

\* ------------------------------------------------------------------ tag containers
\* Bounds of the tag inputs.
MaxFrames == 2
MaxValues == 2
MaxFlatKeys == 2

TextValues == {"a", "b"}
FlatValues == {"Song", "x"}

\* Value lists of a text frame: 1..MaxValues values.
TextLists == UNION {[1..n -> TextValues] : n \in 1..MaxValues}

\* Frame classes: plain text frames, comment, user-defined text, picture, and
\* a frame of no shape _clone_id3_frame_to knows (PRIV).
PlainTextClasses == {"TIT2", "TPE1"}
Langs == {"", "eng", "deu"}
Descs == {"", "d"}

\* A frame object; a field a class does not have is "".
Frame(cls, enc, lang, desc, text, data) ==
    [cls |-> cls, enc |-> enc, lang |-> lang, desc |-> desc, text |-> text,
     data |-> data]

\* Frames a WAV's ID3 chunk may hold (any text encoding but UTF-8 here):
\* titles with every value list, the other frames with a few.
SourceFrames ==
    {Frame("TIT2", "latin1", "", "", t, "") : t \in TextLists}
    \cup {Frame("TPE1", "latin1", "", "", <<v>>, "") : v \in TextValues}
    \cup {Frame("COMM", "latin1", l, d, <<"a">>, "") : l \in Langs, d \in Descs}
    \cup {Frame("TXXX", "latin1", "", d, t, "") :
             d \in Descs, t \in {<<"a">>, <<"b", "a">>}}
    \cup {Frame("APIC", "latin1", "", d, <<>>, "img") : d \in Descs}
    \cup {Frame("PRIV", "", "", "", <<>>, "bin")}

\* frame.HashKey, the key of a frame in an ID3 container.
HashKey(fr) ==
    IF fr.cls = "COMM" THEN <<fr.cls, fr.desc, fr.lang>>
    ELSE IF fr.cls \in {"TXXX", "APIC"} THEN <<fr.cls, fr.desc, "">>
    ELSE <<fr.cls, "", "">>

\* An ID3 container holds one frame per HashKey.
IsID3(S) == \A x \in S, y \in S : HashKey(x) = HashKey(y) => x = y

\* RIFF INFO keys: the eight mapped ones and one nobody maps.
FlatKeys == {"INAM", "IART", "IPRD", "ICRD", "IGNR", "ITRK", "ICMT", "ISFT",
             "XFOO"}

\* A flat container: a set of <<key, value>> pairs, one per key.
IsFlat(S) == \A x \in S, y \in S : x[1] = y[1] => x = y

\* WAVE(str(wav_file)).tags
\*   none: no tag chunk (tags is None)     unreadable: WAVE(...) raises
\*   rich: an ID3 instance                 flat: any other mapping
Container(shape, frames, kv) == [shape |-> shape, frames |-> frames, kv |-> kv]

\* The tag container the encoder left in the fresh MP3: none at all, an empty
\* one, or one holding the encoder's own TSSE frame.
EncoderFrame == Frame("TSSE", "latin1", "", "", <<"Lavf">>, "")
NoTags == [present |-> FALSE, frames |-> {}]
EncoderContainers ==
    {NoTags, [present |-> TRUE, frames |-> {}],
     [present |-> TRUE, frames |-> {EncoderFrame}]}

\* No copy_tags call is being followed (the pipeline abstracts it).
TagIdle ==
    /\ t_src = Container("none", {}, {})
    /\ t_disk0 = NoTags /\ t_disk = NoTags /\ t_mem = NoTags
    /\ t_todo = {} /\ t_copied = 0 /\ t_ret = 0
    /\ t_path = "none" /\ t_event = "none" /\ t_pc = "idle"
    /\ t_raised = {}

\* ------------------------------------------------------------------ paths
\* Bounds of the source trees.
MaxDepth == 2
MaxTreeFiles == 2

SrcRoot == <<"src">>
DstRoot == <<"dst">>
DirNames == <<"a", "b", "c", "d">>
Stems == {"1", "2", ".wav"}
Exts == {"wav", "WAV", "txt", ""}

\* A path: its directories from the top, and the file name split as
\* PurePath.stem / PurePath.suffix split it: at the last dot, except that a
\* dot that starts the name belongs to the stem (".wav" has no suffix).
Path(ds, stem, ext) == [dirs |-> ds, stem |-> stem, ext |-> ext]

\* Directories below the source root: a, a/b, ... down to MaxDepth levels.
RelDirs == {SubSeq(DirNames, 1, n) : n \in 0..MaxDepth}

TreeFiles == {Path(SrcRoot \o d, st, e) : d \in RelDirs, st \in Stems, e \in Exts}

\* str.lower() on a suffix
Lower(ext) == IF ext = "WAV" THEN "wav" ELSE ext

\* No path is being followed.
PathIdle ==
    /\ p_tree = {} /\ p_posix = TRUE /\ p_found = {} /\ p_dest = {}
    /\ p_pc = "idle"

\* ------------------------------------------------------------------ Init
\* The part of the initial state shared by every way of starting the program.
InitTrees ==
    /\ TagIdle
    /\ PathIdle
    /\ src_exists \in BOOLEAN
    /\ wav_files \in SUBSET AllFiles
    /\ ~src_exists => wav_files = {}
    /\ has_tags \in SUBSET wav_files
    /\ fs \in [AllFiles -> {"absent", "old"}]
    /\ \A f \in AllFiles : f \notin wav_files => fs[f] = "absent"
    /\ dirs = [d \in Dirs |->
                 IF \E f \in AllFiles : DirOf(f) = d /\ fs[f] # "absent"
                 THEN "present" ELSE "missing"]
    /\ run = 1
    /\ idx = 1
    /\ work_queue = <<>>
    /\ tpc = [f \in AllFiles |-> "none"]
    /\ result = NoResult
    /\ converted = 0 /\ skipped = 0 /\ failed = 0
    /\ would_convert = 0 /\ would_skip = 0
    /\ log_errors = {}
    /\ submitted = Zero /\ started = Zero /\ counted = Zero /\ attempts = Zero
    /\ seen = NoResult
    /\ fs0 = fs
    /\ outcome1 = NoResult
    /\ dirs0 = dirs
    /\ tag_event = NoResult
    /\ copied = Zero

\* The argument passed as dry_run to convert_one by ex.submit (always False).
TaskDryRun == FALSE

\* main() calls run_conversion with the parsed command line.
Init ==
    /\ InitTrees
    /\ workers \in 1..MaxWorkers
    /\ dry_run \in BOOLEAN
    /\ arg_dry_run = TaskDryRun
    /\ pc = "start"

\* ------------------------------------------------------------------ run_conversion
\* "if dry_run:" - the orchestrator's choice between counting and converting
DryBranchIgnored == FALSE
DryBranch == dry_run

\* Lines 214-249: discovery and the early returns.
run_conversion_begin ==
    /\ pc = "start"
    /\ pc' = IF ~src_exists THEN "nosrc"
             ELSE IF wav_files = {} THEN "empty"
             ELSE IF DryBranch THEN "dry_loop" ELSE "submit"
    /\ idx' = 1
    /\ UNCHANGED <<other_vars, dirs0, tag_event, copied,
                   wav_files, has_tags, fs, dirs, workers, dry_run, run,
                   work_queue, tpc, result, converted, skipped, failed,
                   would_convert, would_skip, log_errors, submitted, started,
                   counted, attempts, seen, fs0, outcome1>>

\* One iteration of the dry-run loop: which counter gets the file.
DryCountsSwapped(exists, wc, ws) == IF exists THEN <<wc + 1, ws>> ELSE <<wc, ws + 1>>
DryCounts(exists, wc, ws) == IF exists THEN <<wc, ws + 1>> ELSE <<wc + 1, ws>>

dry_run_step ==
    /\ pc = "dry_loop"
    /\ idx <= Len(SortedSeq(wav_files))
    /\ LET wav == SortedSeq(wav_files)[idx]
           c == DryCounts(Exists(fs[wav]), would_convert, would_skip)
       IN /\ would_convert' = c[1]
          /\ would_skip' = c[2]
    /\ idx' = idx + 1
    /\ UNCHANGED <<other_vars, dirs0, tag_event, copied,
                   wav_files, has_tags, fs, dirs, workers, dry_run, run, pc,
                   work_queue, tpc, result, converted, skipped, failed,
                   log_errors, submitted, started, counted, attempts, seen,
                   fs0, outcome1>>

\* The dry-run table is printed and run_conversion returns.
dry_run_finish ==
    /\ pc = "dry_loop"
    /\ idx > Len(SortedSeq(wav_files))
    /\ pc' = "done"
    /\ UNCHANGED <<other_vars, dirs0, tag_event, copied,
                   wav_files, has_tags, fs, dirs, workers, dry_run, run, idx,
                   work_queue, tpc, result, converted, skipped, failed,
                   would_convert, would_skip, log_errors, submitted, started,
                   counted, attempts, seen, fs0, outcome1>>

\* futures = [ex.submit(convert_one, wav, ...) for wav in wav_files]
submit ==
    /\ pc = "submit"
    /\ idx <= Len(SortedSeq(wav_files))
    /\ LET wav == SortedSeq(wav_files)[idx]
       IN /\ work_queue' = Append(work_queue, wav)
          /\ tpc' = [tpc EXCEPT ![wav] = "queued"]
          /\ submitted' = [submitted EXCEPT ![wav] = @ + 1]
    /\ idx' = idx + 1
    /\ pc' = IF idx = Len(SortedSeq(wav_files)) THEN "collect" ELSE "submit"
    /\ UNCHANGED <<other_vars, dirs0, tag_event, copied,
                   wav_files, has_tags, fs, dirs, workers, dry_run, run,
                   result, converted, skipped, failed, would_convert,
                   would_skip, log_errors, started, counted, attempts, seen,
                   fs0, outcome1>>

\* A pool thread takes the oldest queued call.
worker_start ==
    /\ work_queue # <<>>
    /\ CanStart
    /\ LET wav == Head(work_queue)
       IN /\ tpc' = [tpc EXCEPT ![wav] = "mkdir"]
          /\ started' = [started EXCEPT ![wav] = @ + 1]
    /\ work_queue' = Tail(work_queue)
    /\ UNCHANGED <<other_vars, dirs0, tag_event, copied,
                   wav_files, has_tags, fs, dirs, workers, dry_run, run, pc,
                   idx, result, converted, skipped, failed, would_convert,
                   would_skip, log_errors, submitted, counted, attempts, seen,
                   fs0, outcome1>>

\* ------------------------------------------------------------------ convert_one
\* mp3_file.parent.mkdir(parents=True, exist_ok=True), outside the try block:
\* an OSError leaves convert_one as an exception stored in the future.
convert_one_mkdir(wav) ==
    /\ tpc[wav] = "mkdir"
    /\ \/ /\ dirs' = [dirs EXCEPT ![DirOf(wav)] = "present"]
          /\ tpc' = [tpc EXCEPT ![wav] = "check"]
       \/ /\ dirs[DirOf(wav)] = "missing"
          /\ tpc' = [tpc EXCEPT ![wav] = "raised"]
          /\ dirs' = dirs
    /\ UNCHANGED <<other_vars, dirs0, tag_event, copied,
                   wav_files, has_tags, fs, workers, dry_run, run, pc, idx,
                   work_queue, result, converted, skipped, failed,
                   would_convert, would_skip, log_errors, submitted, started,
                   counted, attempts, seen, fs0, outcome1>>

\* "if mp3_file.exists(): return 'skipped'"
SkipNever(content) == FALSE
SkipIfMissing(content) == ~Exists(content)
SkipIfExists(content) == Exists(content)

convert_one_exists(wav) ==
    /\ tpc[wav] = "check"
    /\ seen' = [seen EXCEPT ![wav] = fs[wav]]
    /\ IF SkipIfExists(fs[wav])
       THEN /\ result' = [result EXCEPT ![wav] = "skipped"]
            /\ tpc' = [tpc EXCEPT ![wav] = "returned"]
       ELSE IF arg_dry_run
       THEN /\ result' = [result EXCEPT ![wav] = "would_convert"]
            /\ tpc' = [tpc EXCEPT ![wav] = "returned"]
       ELSE /\ result' = result
            /\ tpc' = [tpc EXCEPT ![wav] = "decode"]
    /\ UNCHANGED <<other_vars, dirs0, tag_event, copied,
                   wav_files, has_tags, fs, dirs, workers, dry_run, run, pc,
                   idx, work_queue, converted, skipped, failed, would_convert,
                   would_skip, log_errors, submitted, started, counted,
                   attempts, fs0, outcome1>>

\* "except Exception as e: logging.error(...); return 'failed'"
Fail(wav) ==
    /\ result' = [result EXCEPT ![wav] = "failed"]
    /\ tpc' = [tpc EXCEPT ![wav] = "returned"]
    /\ log_errors' = log_errors \cup {wav}

\* audio = AudioSegment.from_wav(str(wav_file)): succeeds or raises.
convert_one_from_wav(wav) ==
    /\ tpc[wav] = "decode"
    /\ attempts' = [attempts EXCEPT ![wav] = @ + 1]
    /\ \/ /\ tpc' = [tpc EXCEPT ![wav] = "export"]
          /\ UNCHANGED <<result, log_errors>>
       \/ Fail(wav)
    /\ UNCHANGED <<other_vars, dirs0, tag_event, copied,
                   wav_files, has_tags, fs, dirs, workers, dry_run, run, pc,
                   idx, work_queue, converted, skipped, failed, would_convert,
                   would_skip, submitted, started, counted, seen, fs0,
                   outcome1>>

\* audio.export(str(mp3_file), ...): the destination is opened for writing
\* (created empty) before the encoder runs, or the open itself raises.
convert_one_export_open(wav) ==
    /\ tpc[wav] = "export"
    /\ \/ /\ fs' = [fs EXCEPT ![wav] = "partial"]
          /\ tpc' = [tpc EXCEPT ![wav] = "encoding"]
          /\ UNCHANGED <<result, log_errors>>
       \/ /\ Fail(wav)
          /\ fs' = fs
    /\ UNCHANGED <<other_vars, dirs0, tag_event, copied,
                   wav_files, has_tags, dirs, workers, dry_run, run, pc, idx,
                   work_queue, converted, skipped, failed, would_convert,
                   would_skip, submitted, started, counted, attempts, seen,
                   fs0, outcome1>>

\* The encoder finishes writing the destination, or raises part-way; the
\* except clause of convert_one only logs and returns, nothing is removed.
convert_one_export_finish(wav) ==
    /\ tpc[wav] = "encoding"
    /\ \/ /\ fs' = [fs EXCEPT ![wav] = "audio"]
          /\ tpc' = [tpc EXCEPT ![wav] = "tags"]
          /\ UNCHANGED <<result, log_errors>>
       \/ /\ Fail(wav)
          /\ fs' = fs
    /\ UNCHANGED <<other_vars, dirs0, tag_event, copied,
                   wav_files, has_tags, dirs, workers, dry_run, run, pc, idx,
                   work_queue, converted, skipped, failed, would_convert,
                   would_skip, submitted, started, counted, attempts, seen,
                   fs0, outcome1>>

\* copy_tags (lines 131-152) as seen from convert_one.  What happens inside:
\*   no_tags : "if not wav_meta.tags: return 0", the MP3 is not opened
\*   saved   : the rebuilt tag container is saved into the MP3
\*   error   : WAVE(...), MP3(...) or save() raised
TagEvents(wav) ==
    IF wav \in has_tags THEN {"saved", "error"} ELSE {"no_tags", "error"}

\* "except Exception as e: logging.warning(...); return 0" - nothing raised
\* inside copy_tags reaches convert_one.
CopyTagsPropagates(event) == event = "error"
CopyTagsRaises(event) == FALSE

\* The count copy_tags returns; the abstract tag container of a file of
\* has_tags holds one frame.
CopiedCount(event) == IF event = "saved" THEN 1 ELSE 0

\* copied = copy_tags(wav_file, mp3_file); return "converted".
convert_one_copy_tags(wav) ==
    /\ tpc[wav] = "tags"
    /\ \E event \in TagEvents(wav) :
          /\ tag_event' = [tag_event EXCEPT ![wav] = event]
          /\ fs' = [fs EXCEPT ![wav] = IF event = "saved" THEN "tagged" ELSE @]
          /\ IF CopyTagsRaises(event)
             THEN /\ Fail(wav)
                  /\ copied' = copied
             ELSE /\ result' = [result EXCEPT ![wav] = "converted"]
                  /\ tpc' = [tpc EXCEPT ![wav] = "returned"]
                  /\ copied' = [copied EXCEPT ![wav] = CopiedCount(event)]
                  /\ log_errors' = log_errors
    /\ UNCHANGED <<other_vars, dirs0, wav_files, has_tags, dirs, workers,
                   dry_run, run, pc, idx, work_queue, converted, skipped,
                   failed, would_convert, would_skip, submitted, started,
                   counted, attempts, seen, fs0, outcome1>>

\* ------------------------------------------------------------------ collection
\* "if status == k: k_counter += 1"
CountNoFailed(status, kind, n) ==
    IF status = kind /\ kind # "failed" THEN n + 1 ELSE n
CountSkippedAsNew(status, kind, n) ==
    IF status = kind \/ (kind = "converted" /\ status = "skipped")
    THEN n + 1 ELSE n
Count(status, kind, n) == IF status = kind THEN n + 1 ELSE n

\* One iteration of "for fut in as_completed(futures): status = fut.result()".
\* fut.result() re-raises an exception that escaped convert_one.
collect(wav) ==
    /\ pc = "collect"
    /\ wav \in wav_files
    /\ tpc[wav] \in Finished
    /\ counted[wav] = 0
    /\ counted' = [counted EXCEPT ![wav] = @ + 1]
    /\ IF tpc[wav] = "raised"
       THEN /\ pc' = "raising"
            /\ UNCHANGED <<converted, skipped, failed>>
       ELSE /\ pc' = pc
            /\ converted' = Count(result[wav], "converted", converted)
            /\ skipped' = Count(result[wav], "skipped", skipped)
            /\ failed' = Count(result[wav], "failed", failed)
    /\ UNCHANGED <<other_vars, dirs0, tag_event, copied,
                   wav_files, has_tags, fs, dirs, workers, dry_run, run, idx,
                   work_queue, tpc, result, would_convert, would_skip,
                   log_errors, submitted, started, attempts, seen, fs0,
                   outcome1>>

\* All futures delivered: the executor is left and the summary is printed.
summary ==
    /\ pc = "collect"
    /\ \A wav \in wav_files : counted[wav] > 0
    /\ pc' = "done"
    /\ UNCHANGED <<other_vars, dirs0, tag_event, copied,
                   wav_files, has_tags, fs, dirs, workers, dry_run, run, idx,
                   work_queue, tpc, result, converted, skipped, failed,
                   would_convert, would_skip, log_errors, submitted, started,
                   counted, attempts, seen, fs0, outcome1>>

\* The exception leaves the "with ThreadPoolExecutor" block: shutdown(wait=True)
\* lets every submitted call run to its end, then run_conversion is left by
\* the exception without a summary.
abort ==
    /\ pc = "raising"
    /\ work_queue = <<>>
    /\ InFlight = {}
    /\ pc' = "aborted"
    /\ UNCHANGED <<other_vars, dirs0, tag_event, copied,
                   wav_files, has_tags, fs, dirs, workers, dry_run, run, idx,
                   work_queue, tpc, result, converted, skipped, failed,
                   would_convert, would_skip, log_errors, submitted, started,
                   counted, attempts, seen, fs0, outcome1>>

\* The same command line is run again on the same trees.
rerun ==
    /\ pc \in {"done", "aborted", "empty", "nosrc"}
    /\ run < MaxRuns
    /\ run' = run + 1
    /\ pc' = "start"
    /\ idx' = 1
    /\ work_queue' = <<>>
    /\ tpc' = [f \in AllFiles |-> "none"]
    /\ result' = NoResult
    /\ converted' = 0 /\ skipped' = 0 /\ failed' = 0
    /\ would_convert' = 0 /\ would_skip' = 0
    /\ log_errors' = {}
    /\ submitted' = Zero /\ started' = Zero /\ counted' = Zero
    /\ attempts' = Zero
    /\ seen' = NoResult
    /\ fs0' = fs
    /\ outcome1' = result
    /\ dirs0' = dirs
    /\ tag_event' = NoResult
    /\ copied' = Zero
    /\ UNCHANGED <<other_vars, wav_files, has_tags, fs, dirs, workers, dry_run>>

Next ==
    \/ run_conversion_begin
    \/ dry_run_step
    \/ dry_run_finish
    \/ submit
    \/ worker_start
    \/ \E wav \in AllFiles : convert_one_mkdir(wav)
    \/ \E wav \in AllFiles : convert_one_exists(wav)
    \/ \E wav \in AllFiles : convert_one_from_wav(wav)
    \/ \E wav \in AllFiles : convert_one_export_open(wav)
    \/ \E wav \in AllFiles : convert_one_export_finish(wav)
    \/ \E wav \in AllFiles : convert_one_copy_tags(wav)
    \/ \E wav \in AllFiles : collect(wav)
    \/ summary
    \/ abort
    \/ rerun

Spec == Init /\ [][Next]_vars

\* ------------------------------------------------------------------ copy_tags
\* mp3_tags.add(frame): the frame takes the place of any frame of its HashKey.
Add(tags, fr) == {g \in tags : HashKey(g) # HashKey(fr)} \cup {fr}

\* hasattr(frame, "text"): every TextFrame subclass, which COMM and TXXX are.
HasAttrText(fr) == fr.cls \in PlainTextClasses \cup {"COMM", "TXXX", "TSSE"}

\* Constructor defaults of the frame classes for fields not passed.
DefaultLang(cls) == IF cls = "COMM" THEN "XXX" ELSE ""

\* text = frame.text; ... text=text
FirstValueOnly(text) == <<Head(text)>>
ClonedText(text) == text

\* _clone_id3_frame_to(mp3_tags, key, frame): the branches in source order.
\* Gives the returned flag and the container after the call.
_clone_id3_frame_to(tags, fr) ==
    IF HasAttrText(fr)
    THEN [copied |-> TRUE,
          tags |-> Add(tags, Frame(fr.cls, "utf8", DefaultLang(fr.cls), "",
                                   ClonedText(fr.text), ""))]
    ELSE IF fr.cls = "COMM"
    THEN [copied |-> TRUE,
          tags |-> Add(tags, Frame("COMM", "utf8",
                                   IF fr.lang = "" THEN "eng" ELSE fr.lang,
                                   fr.desc, fr.text, ""))]
    ELSE IF fr.cls = "APIC"
    THEN [copied |-> TRUE,
          tags |-> Add(tags, Frame("APIC", "utf8", "", fr.desc, <<>>, fr.data))]
    ELSE IF fr.cls = "TXXX"
    THEN [copied |-> TRUE,
          tags |-> Add(tags, Frame("TXXX", "utf8", "", fr.desc, fr.text, ""))]
    ELSE [copied |-> FALSE, tags |-> tags]

\* Frames for which one of the four branches inside the try block runs.
KnownShape(fr) == HasAttrText(fr) \/ fr.cls \in {"COMM", "APIC", "TXXX"}

\* "except Exception as e: logging.warning(...); return False": the frame
\* constructor or mp3_tags.add raised, nothing was added.
CloneExceptCounted(tags) == [copied |-> TRUE, tags |-> tags]
CloneExcept(tags) == [copied |-> FALSE, tags |-> tags]

\* The frame a successful _clone_id3_frame_to call builds from fr.
CloneOf(fr) == CHOOSE g \in _clone_id3_frame_to({}, fr).tags : TRUE

\* The RIFF INFO -> ID3 table of _copy_from_riff_info, ICMT and ISFT included.
FlatMappingSwapped ==
    <<<<"INAM", "TIT2">>, <<"IART", "TALB">>, <<"IPRD", "TPE1">>,
      <<"ICRD", "TYER">>, <<"IGNR", "TCON">>, <<"ITRK", "TRCK">>,
      <<"ICMT", "COMM">>, <<"ISFT", "TSSE">>>>
FlatMapping ==
    <<<<"INAM", "TIT2">>, <<"IART", "TPE1">>, <<"IPRD", "TALB">>,
      <<"ICRD", "TYER">>, <<"IGNR", "TCON">>, <<"ITRK", "TRCK">>,
      <<"ICMT", "COMM">>, <<"ISFT", "TSSE">>>>

\* cls(encoding=3, text=tags[wav_key]); COMM gets lang="eng", desc="".
FlatFrame(cls, value) ==
    Frame(cls, "utf8", IF cls = "COMM" THEN "eng" ELSE "", "", <<value>>, "")

RECURSIVE ApplyMapping(_, _, _, _)
\* The "if wav_key in tags: add; copied += 1" statements from entry i on.
ApplyMapping(i, kv, tags, n) ==
    IF i > Len(FlatMapping) THEN [tags |-> tags, copied |-> n]
    ELSE LET hit == {x \in kv : x[1] = FlatMapping[i][1]}
         IN IF hit = {} THEN ApplyMapping(i + 1, kv, tags, n)
            ELSE LET x == CHOOSE y \in hit : TRUE
                 IN ApplyMapping(i + 1, kv,
                                 Add(tags, FlatFrame(FlatMapping[i][2], x[2])),
                                 n + 1)

\* "if not wav_meta.tags: return 0": None and empty containers are falsy.
Falsy(src) ==
    \/ src.shape = "none"
    \/ src.shape = "rich" /\ src.frames = {}
    \/ src.shape = "flat" /\ src.kv = {}

\* "except Exception as e: logging.warning(...); return 0"
Swallow(event) ==
    /\ t_event' = event
    /\ t_ret' = 0
    /\ t_pc' = "done"

\* A copy_tags call on a freshly encoded MP3.
InitTags ==
    /\ \/ t_src \in {Container("none", {}, {}), Container("unreadable", {}, {})}
       \/ \E n \in 0..MaxFrames : \E s \in [1..n -> SourceFrames] :
             /\ IsID3({s[i] : i \in 1..n})
             /\ t_src = Container("rich", {s[i] : i \in 1..n}, {})
       \/ \E n \in 0..MaxFlatKeys : \E s \in [1..n -> FlatKeys \X FlatValues] :
             /\ IsFlat({s[i] : i \in 1..n})
             /\ t_src = Container("flat", {}, {s[i] : i \in 1..n})
    /\ t_disk0 \in EncoderContainers
    /\ t_disk = t_disk0
    /\ t_mem = NoTags
    /\ t_todo = {} /\ t_copied = 0 /\ t_ret = 0
    /\ t_path = "none" /\ t_event = "none" /\ t_pc = "start"
    /\ t_raised = {}

\* Lines 138-148: read the WAV, return early, open the MP3, dispatch.
copy_tags_begin ==
    /\ t_pc = "start"
    /\ IF t_src.shape = "unreadable"
       THEN /\ Swallow("unreadable")
            /\ UNCHANGED <<t_mem, t_path>>
       ELSE IF Falsy(t_src)
       THEN /\ t_event' = "no_tags"
            /\ t_ret' = 0
            /\ t_pc' = "done"
            /\ UNCHANGED <<t_mem, t_path>>
       ELSE \/ /\ t_mem' = t_disk
               /\ t_path' = IF t_src.shape = "rich" THEN "rich" ELSE "flat"
               /\ t_pc' = "prepare"
               /\ UNCHANGED <<t_event, t_ret>>
            \/ /\ Swallow("mp3_error")
               /\ UNCHANGED <<t_mem, t_path>>
    /\ UNCHANGED <<t_src, t_disk0, t_disk, t_todo, t_copied, t_raised,
                   pipe_vars, path_vars>>

\* "if mp3_audio.tags is None: add_tags() else: tags.clear()"; copied = 0
FreshTags(mem) == [present |-> TRUE, frames |-> {}]

prepare_tags ==
    /\ t_pc = "prepare"
    /\ t_mem' = FreshTags(t_mem)
    /\ t_copied' = 0
    /\ t_todo' = t_src.frames
    /\ t_pc' = IF t_path = "rich" THEN "loop" ELSE "mapping"
    /\ UNCHANGED <<t_src, t_disk0, t_disk, t_ret, t_path, t_event, t_raised,
                   pipe_vars, path_vars>>

\* One iteration of "for key, frame in wav_id3.items()"; a call that enters
\* one of the branches of the try block returns or raises inside it.
clone_frame ==
    /\ t_pc = "loop"
    /\ \E fr \in t_todo :
       \E raised \in IF KnownShape(fr) THEN BOOLEAN ELSE {FALSE} :
          LET r == IF raised THEN CloneExcept(t_mem.frames)
                   ELSE _clone_id3_frame_to(t_mem.frames, fr)
          IN /\ t_mem' = [t_mem EXCEPT !.frames = r.tags]
             /\ t_copied' = IF r.copied THEN t_copied + 1 ELSE t_copied
             /\ t_todo' = t_todo \ {fr}
             /\ t_raised' = IF raised THEN t_raised \cup {fr} ELSE t_raised
    /\ UNCHANGED <<t_src, t_disk0, t_disk, t_ret, t_path, t_event, t_pc,
                   pipe_vars,
                   path_vars>>

\* The loop is over.
loop_end ==
    /\ t_pc = "loop"
    /\ t_todo = {}
    /\ t_pc' = "save"
    /\ UNCHANGED <<t_src, t_disk0, t_disk, t_mem, t_todo, t_copied, t_ret,
                   t_path, t_event, t_raised, pipe_vars, path_vars>>

\* Lines 103-125 of _copy_from_riff_info.
riff_mapping ==
    /\ t_pc = "mapping"
    /\ LET r == ApplyMapping(1, t_src.kv, t_mem.frames, 0)
       IN /\ t_mem' = [t_mem EXCEPT !.frames = r.tags]
          /\ t_copied' = r.copied
    /\ t_pc' = "save"
    /\ UNCHANGED <<t_src, t_disk0, t_disk, t_todo, t_ret, t_path, t_event,
                   t_raised, pipe_vars, path_vars>>

\* mp3_audio.save(); return copied - or save() raises into copy_tags' except.
save_tags ==
    /\ t_pc = "save"
    /\ \/ /\ t_disk' = t_mem
          /\ t_event' = "saved"
          /\ t_ret' = t_copied
          /\ t_pc' = "done"
       \/ /\ Swallow("save_error")
          /\ t_disk' = t_disk
    /\ UNCHANGED <<t_src, t_disk0, t_mem, t_todo, t_copied, t_path, t_raised,
                   pipe_vars, path_vars>>

NextTags ==
    \/ copy_tags_begin
    \/ prepare_tags
    \/ clone_frame
    \/ loop_end
    \/ riff_mapping
    \/ save_tags

\* The pipeline variables stay at a fixed idle value in this specification.
PipeIdle ==
    /\ src_exists = TRUE /\ wav_files = {} /\ has_tags = {}
    /\ fs = [f \in AllFiles |-> "absent"]
    /\ dirs = [d \in Dirs |-> "missing"]
    /\ workers = 1 /\ dry_run = FALSE /\ arg_dry_run = FALSE
    /\ run = 1 /\ idx = 1 /\ pc = "direct"
    /\ work_queue = <<>>
    /\ tpc = NoResult /\ result = NoResult
    /\ converted = 0 /\ skipped = 0 /\ failed = 0
    /\ would_convert = 0 /\ would_skip = 0
    /\ log_errors = {}
    /\ submitted = Zero /\ started = Zero /\ counted = Zero /\ attempts = Zero
    /\ seen = NoResult /\ fs0 = fs /\ outcome1 = NoResult /\ dirs0 = dirs
    /\ tag_event = NoResult /\ copied = Zero

\* copy_tags followed on its own.
TagInit == PipeIdle /\ PathIdle /\ InitTags

TagSpec == TagInit /\ [][NextTags]_vars

\* ------------------------------------------------------------------ discovery and destination path
\* Whether a file name matches the pattern "*.wav": pathlib compares with the
\* case rules of the platform, case-sensitively on POSIX.
\* The pattern is matched against the whole name, so the name ".wav" matches.
Matches(f, posix) ==
    \/ IF posix THEN f.ext = "wav" ELSE Lower(f.ext) = "wav"
    \/ f.ext = "" /\ f.stem = ".wav"

\* wav_file.relative_to(src_root)
RelativeTo(f, root) ==
    Path(SubSeq(f.dirs, Len(root) + 1, Len(f.dirs)), f.stem, f.ext)

\* relative_path.with_suffix(".mp3")
WithSuffix(f) == Path(f.dirs, f.stem, "mp3")

\* mp3_file = dst_root / relative_path.with_suffix(".mp3")
DestinationOf(f) ==
    LET rel == WithSuffix(RelativeTo(f, SrcRoot))
    IN Path(DstRoot \o rel.dirs, rel.stem, rel.ext)

\* A source tree on either kind of platform; a case-insensitive file system
\* holds no two names that differ by case only.
InitPaths ==
    /\ \E n \in 0..MaxTreeFiles : \E s \in [1..n -> TreeFiles] :
          p_tree = {s[i] : i \in 1..n}
    /\ p_posix \in BOOLEAN
    /\ ~p_posix =>
          \A x \in p_tree, y \in p_tree :
              (x.dirs = y.dirs /\ x.stem = y.stem
                 /\ Lower(x.ext) = Lower(y.ext)) => x = y
    /\ p_found = {} /\ p_dest = {}
    /\ p_pc = "start"

\* wav_files = sorted(src_path.rglob("*.wav"))
rglob ==
    /\ p_pc = "start"
    /\ p_found' = {f \in p_tree : Matches(f, p_posix)}
    /\ p_pc' = "resolve"
    /\ UNCHANGED <<p_tree, p_posix, p_dest, pipe_vars, tag_vars>>

\* Lines 192-193 (and 255-256) for one discovered file.
resolve(f) ==
    /\ p_pc = "resolve"
    /\ f \in p_found
    /\ \A x \in p_dest : x[1] # f
    /\ p_dest' = p_dest \cup {<<f, DestinationOf(f)>>}
    /\ UNCHANGED <<p_tree, p_posix, p_found, p_pc, pipe_vars, tag_vars>>

\* Every discovered file has its destination.
resolve_end ==
    /\ p_pc = "resolve"
    /\ \A f \in p_found : \E x \in p_dest : x[1] = f
    /\ p_pc' = "done"
    /\ UNCHANGED <<p_tree, p_posix, p_found, p_dest, pipe_vars, tag_vars>>

NextPaths ==
    \/ rglob
    \/ \E f \in TreeFiles : resolve(f)
    \/ resolve_end

\* Discovery and path computation followed on their own.
PathInit == PipeIdle /\ TagIdle /\ InitPaths

PathSpec == PathInit /\ [][NextPaths]_vars

\* ------------------------------------------------------------------ process exit
\* run_conversion has returned or has been left by an exception.
Terminated == pc \in {"done", "empty", "nosrc", "aborted"}

\* Exit status of the process: main() never calls sys.exit, so the status is
\* 0 whenever run_conversion returns (also after the "Quellverzeichnis
\* existiert nicht" message) and 1 when an exception leaves main().
ExitCode == IF pc = "aborted" THEN 1 ELSE 0

\* ------------------------------------------------------------------ convert_one called directly
\* convert_one(wav, src_root, dst_root, bitrate, dry_run) called by a caller
\* other than run_conversion, with either value of dry_run.
InitWorker ==
    /\ InitTrees
    /\ workers = MaxWorkers
    /\ arg_dry_run \in BOOLEAN
    /\ dry_run = arg_dry_run
    /\ pc = "direct"

convert_one_call(wav) ==
    /\ pc = "direct"
    /\ wav \in wav_files
    /\ tpc[wav] = "none"
    /\ tpc' = [tpc EXCEPT ![wav] = "mkdir"]
    /\ started' = [started EXCEPT ![wav] = @ + 1]
    /\ UNCHANGED <<other_vars, dirs0, tag_event, copied,
                   wav_files, has_tags, fs, dirs, workers, dry_run, run, pc,
                   idx, work_queue, result, converted, skipped, failed,
                   would_convert, would_skip, log_errors, submitted, counted,
                   attempts, seen, fs0, outcome1>>

NextWorker ==
    \/ \E wav \in AllFiles : convert_one_call(wav)
    \/ \E wav \in AllFiles : convert_one_mkdir(wav)
    \/ \E wav \in AllFiles : convert_one_exists(wav)
    \/ \E wav \in AllFiles : convert_one_from_wav(wav)
    \/ \E wav \in AllFiles : convert_one_export_open(wav)
    \/ \E wav \in AllFiles : convert_one_export_finish(wav)
    \/ \E wav \in AllFiles : convert_one_copy_tags(wav)

WorkerSpec == InitWorker /\ [][NextWorker]_vars

TypeOK ==
    /\ wav_files \subseteq AllFiles
    /\ fs \in [AllFiles -> Contents]
    /\ pc \in {"start", "nosrc", "empty", "direct", "dry_loop", "submit", "collect", "raising",
               "done", "aborted"}
    /\ tpc \in [AllFiles -> {"none", "queued"} \cup Running \cup Finished]

\* ------------------------------------------------------------------ claims
Live == ~dry_run
NumDiscovered == Cardinality(wav_files)

C2_NoClobber ==
    \A f \in AllFiles :
        (seen[f] # "none" /\ Exists(seen[f])) =>
            /\ tpc[f] = "returned"
            /\ result[f] = "skipped"
            /\ fs[f] = seen[f]

C2_Witness ==
    \E f \in wav_files :
        /\ Live /\ seen[f] = "old" /\ result[f] = "skipped"
        /\ \E g \in wav_files : g # f /\ tpc[g] = "encoding"

\* C3: every error raised while processing one file becomes a Failed outcome
\* plus a log entry inside its worker; no exception leaves the worker, none
\* aborts the result-collection loop, none keeps a sibling from being counted.
C3_ErrorIsolation ==
    /\ \A f \in AllFiles : tpc[f] # "raised"
    /\ pc \notin {"raising", "aborted"}
    /\ \A f \in AllFiles : result[f] = "failed" => f \in log_errors

\* C4: a task that ended Failed leaves no file at its destination, and is
\* attempted at most once within the run.
C4_FailedLeavesNoFile ==
    \A f \in AllFiles :
        /\ attempts[f] <= 1
        /\ result[f] = "failed" => ~Exists(fs[f])

\* C5: a destination is never visible with encoded audio while the tags of
\* its tagged source have not been written.
C5_AtomicVisibility ==
    \A f \in has_tags : fs[f] # "audio"

\* C6 (as stated): after a first run in which every worker returned an
\* outcome, the second run converts nothing and reports every discovered file
\* as Skipped.
C6_Original ==
    (Live /\ run = 2 /\ pc = "done"
          /\ \A f \in wav_files : outcome1[f] # "none") =>
        /\ converted = 0
        /\ skipped = NumDiscovered

\* C6 (amended): in the second run every file that the first run Converted or
\* Skipped is Skipped and not decoded again; when the first run Converted or
\* Skipped every discovered file, the second run converts zero files and
\* reports all of them as Skipped.
C6_Idempotent ==
    (Live /\ run >= 2) =>
        /\ \A f \in wav_files :
              outcome1[f] \in {"converted", "skipped"} =>
                  /\ attempts[f] = 0
                  /\ tpc[f] # "raised"
                  /\ tpc[f] = "returned" => result[f] = "skipped"
        /\ (pc = "done" /\ \A f \in wav_files :
                              outcome1[f] \in {"converted", "skipped"}) =>
              /\ converted = 0
              /\ skipped = NumDiscovered

C6_Witness ==
    /\ Live /\ run = 2 /\ pc = "done" /\ NumDiscovered >= 2
    /\ \A f \in wav_files : outcome1[f] = "converted"
    /\ skipped = NumDiscovered

C8_BoundedParallelism == Cardinality(InFlight) <= workers

C8_Witness ==
    /\ Cardinality(InFlight) = workers
    /\ work_queue # <<>>

\* C9: a dry run leaves every destination file as it was at the start of the
\* run and invokes no worker, decode or encode.
C9_DryRunFrame ==
    dry_run =>
        /\ fs = fs0
        /\ \A f \in AllFiles :
              started[f] = 0 /\ attempts[f] = 0 /\ tpc[f] = "none"

C9_Witness ==
    /\ dry_run /\ run = 2 /\ pc = "done"
    /\ would_convert = NumDiscovered /\ NumDiscovered >= 2

\* C10: dry-run accounting partitions the discovered files by destination
\* existence: would-skip counts those present, would-convert those missing.
C10_DryRunCounts ==
    /\ (dry_run /\ pc = "dry_loop") => would_convert + would_skip = idx - 1
    /\ (dry_run /\ pc = "done") =>
          /\ would_skip = Cardinality({f \in wav_files : Exists(fs[f])})
          /\ would_convert = Cardinality({f \in wav_files : ~Exists(fs[f])})
          /\ would_convert + would_skip = NumDiscovered

C10_Witness ==
    /\ dry_run /\ run = 1 /\ pc = "done"
    /\ would_skip = 1 /\ would_convert = 1

\* C11: the exit status is non-zero when the source directory does not exist
\* and zero in every other case, also when files ended Failed.
C11_ExitStatus ==
    Terminated => (ExitCode # 0 <=> ~src_exists)

\* C12: a file whose decode and encode succeeded ends Converted whatever
\* happens inside copy_tags, without an error entry; when copy_tags did not
\* save a tag container the count it returns is zero.
C12_TagErrorsNeverFail ==
    \A f \in AllFiles :
        /\ result[f] = "failed" => tag_event[f] = "none"
        /\ tag_event[f] # "none" =>
              /\ tpc[f] = "returned"
              /\ result[f] = "converted"
              /\ tag_event[f] # "saved" => copied[f] = 0

C12_Witness ==
    \E f \in has_tags :
        /\ tag_event[f] = "error" /\ result[f] = "converted"
        /\ copied[f] = 0 /\ fs[f] = "audio"

\* C20: convert_one called with dry_run=True returns Skipped when the
\* destination exists and otherwise WouldConvert, having created no directory
\* and no file; with dry_run=False an existing destination gives Skipped too.
C20_DryWorkerFrame ==
    \A f \in AllFiles :
        tpc[f] = "returned" =>
            /\ Exists(seen[f]) => result[f] = "skipped"
            /\ (arg_dry_run /\ ~Exists(seen[f])) =>
                  /\ result[f] = "would_convert"
                  /\ fs = fs0
                  /\ dirs = dirs0

\* copy_tags went through the rich / the flat helper and saved its result.
RichDone == t_pc = "done" /\ t_path = "rich" /\ t_event = "saved"
FlatDone == t_pc = "done" /\ t_path = "flat" /\ t_event = "saved"

\* C13: every source comment frame that was cloned has a target comment frame with the
\* source's language (a 3-letter fallback when it has none), its description
\* and its text.
C13_CommentFrames ==
    RichDone =>
        \A fr \in t_src.frames :
            (fr.cls = "COMM" /\ fr \notin t_raised) =>
                \E g \in t_disk.frames :
                    /\ g.cls = "COMM"
                    /\ IF fr.lang = "" THEN g.lang # "" ELSE g.lang = fr.lang
                    /\ g.desc = fr.desc
                    /\ g.text = fr.text

\* C14: every source user-defined text frame that was cloned has a target TXXX frame with the
\* source's description and its whole value list.
C14_UserTextFrames ==
    RichDone =>
        \A fr \in t_src.frames :
            (fr.cls = "TXXX" /\ fr \notin t_raised) =>
                \E g \in t_disk.frames :
                    g.cls = "TXXX" /\ g.desc = fr.desc /\ g.text = fr.text

C16_FlatTranslation ==
    FlatDone =>
        LET type == [INAM |-> "TIT2", IART |-> "TPE1", IPRD |-> "TALB",
                     ICRD |-> "TYER", IGNR |-> "TCON", ITRK |-> "TRCK",
                     ICMT |-> "COMM", ISFT |-> "TSSE"]
            known == {x \in t_src.kv : x[1] \in DOMAIN type}
        IN /\ \A x \in known :
                 LET hits == {g \in t_disk.frames : g.cls = type[x[1]]}
                 IN /\ Cardinality(hits) = 1
                    /\ \A g \in hits : g.text = <<x[2]>>
           /\ Cardinality(t_disk.frames) = Cardinality(known)
           /\ t_ret = Cardinality(known)

C16_Witness ==
    /\ FlatDone
    /\ t_src.kv = {<<"INAM", "Song">>, <<"XFOO", "x">>}
    /\ \E g \in t_disk.frames : g.cls = "TIT2" /\ g.text = <<"Song">>
    /\ Cardinality(t_disk.frames) = 1

\* C17: when the WAV and the MP3 can be opened, a container of the rich shape
\* always takes the rich path, also when it holds no frames, and the flat
\* path is taken only by containers that do not have the rich shape.
C17_DispatchTieBreak ==
    (t_pc \notin {"idle", "start"}
       /\ t_event \notin {"unreadable", "mp3_error"}) =>
        /\ t_src.shape = "rich" => t_path = "rich"
        /\ t_path = "flat" => t_src.shape # "rich"

\* C18: after copy_tags returned without an error inside it, the MP3's tag
\* container holds no frame that was there before the translation, for every
\* source shape, a source without tags included.
C18_RebuiltFromScratch ==
    (t_pc = "done"
       /\ t_event \notin {"unreadable", "mp3_error", "save_error"}) =>
        \A g \in t_disk.frames : g \notin t_disk0.frames

\* C19: every file under the source root whose suffix is .wav in any letter
\* case is discovered, and its destination is the destination root joined
\* with its path relative to the source root, the suffix replaced by .mp3.
C19_DestinationPath ==
    p_pc = "done" =>
        \A f \in p_tree :
            Lower(f.ext) = "wav" =>
                /\ f \in p_found
                /\ \E x \in p_dest :
                      /\ x[1] = f
                      /\ x[2].dirs = DstRoot \o SubSeq(f.dirs, 2, Len(f.dirs))
                      /\ x[2].stem = f.stem
                      /\ x[2].ext = "mp3"

\* Source frames the loop has visited, and those among them whose cloning
\* succeeded (a branch ran and nothing was raised).
Visited == t_src.frames \ t_todo
Succeeded == {fr \in Visited : KnownShape(fr) /\ fr \notin t_raised}

\* One iteration of the loop: it never leaves the translation, a frame whose
\* cloning succeeded is in the target set after its iteration, and a skipped
\* frame leaves the target set and the count as they were.
RecoveryStep ==
    t_pc = "loop" =>
        /\ t_pc' \in {"loop", "save"}
        /\ t_event' = "none"
        /\ \A fr \in t_todo \ t_todo' :
              IF KnownShape(fr) /\ fr \notin t_raised'
              THEN CloneOf(fr) \in t_mem'.frames /\ t_copied' = t_copied + 1
              ELSE t_mem' = t_mem /\ t_copied' = t_copied

\* C21: on the rich path a frame of no known shape, or one whose cloning
\* raises, is skipped and the loop goes on: every other frame is still added
\* to the target set in its iteration, the counter equals the number of
\* frames cloned so far, and the saved translation returns the number of
\* frames whose cloning succeeded (possibly zero) and holds the clone of each
\* of them that no other clone of the same HashKey replaced.
C21_PerFrameRecovery ==
    /\ [](/\ (t_path = "rich" /\ t_pc \in {"loop", "save"}) =>
               t_copied = Cardinality(Succeeded)
          /\ RichDone =>
                /\ t_ret = Cardinality(Succeeded)
                /\ \A fr \in Succeeded :
                      (\A g \in Succeeded \ {fr} :
                          HashKey(CloneOf(g)) # HashKey(CloneOf(fr))) =>
                          CloneOf(fr) \in t_disk.frames)
    /\ [][RecoveryStep]_vars

C21_Witness ==
    /\ RichDone
    /\ t_ret = 1
    /\ \E fr \in t_src.frames : fr.cls = "TIT2" /\ fr \in t_raised
    /\ \E fr \in t_src.frames :
          fr.cls = "APIC" /\ CloneOf(fr) \in t_disk.frames

\* C23: on the rich path the returned count is the number of frames in the
\* saved target set, and two distinct source frames that were cloned give two
\* target frames that are both in it (none replaces the other).
C23_CountMatchesFrames ==
    RichDone =>
        /\ t_ret = Cardinality(t_disk.frames)
        /\ \A fr \in Succeeded, g \in Succeeded :
              fr # g =>
                  /\ CloneOf(fr) # CloneOf(g)
                  /\ {CloneOf(fr), CloneOf(g)} \subseteq t_disk.frames

\* C22: within one run no two discovered source files get the same
\* destination path, so no two convert_one calls of the run check, create or
\* write the same file.
C22_DistinctDestinations ==
    /\ \A f \in p_found, g \in p_found :
          f # g => DestinationOf(f) # DestinationOf(g)
    /\ \A x \in p_dest, y \in p_dest : x[1] # y[1] => x[2] # y[2]

====
